---------------------------- MODULE Spec2Model ----------------------------
(***************************************************************************)
(* Model of the violetear coordinator (src/src/main.rs): the six JSON-RPC  *)
(* handlers of RpcImpl over the two tables created by main, running as     *)
(* concurrent calls that share one r2d2 connection pool.                    *)
(***************************************************************************)
EXTENDS Integers, Sequences, FiniteSets, TLC

(***************************************************************************)
(* Bounds of the model.                                                    *)
(***************************************************************************)
\* Number of RPC calls that may be in flight at the same time.
NumCalls == 2
\* Largest value the sequence behind profiles.id hands out in the model.
MaxProfileSeq == 3
\* Largest value the sequence behind tasks.id hands out in the model.
MaxTaskSeq == 2
\* Longest task payload, in bytes.
MaxDataLen == 1
\* Connections of the pool.
PoolSize == 1

(***************************************************************************)
(* Content addresser: multihash::encode(Hash::SHA2256, &data).             *)
(* A 32-bit word is a pair <<hi, lo>> of 16-bit halves.                    *)
(* Recursions are by halving, which keeps their depth logarithmic.         *)
(***************************************************************************)
Pow2(n) == 2 ^ n

\* Bitwise exclusive or and bitwise and of two n-bit numbers, n a power of 2.
RECURSIVE XorBits(_, _, _)
XorBits(a, b, n) ==
  IF n = 1 THEN (a + b) % 2
  ELSE LET h == n \div 2
           m == Pow2(h)
       IN  XorBits(a \div m, b \div m, h) * m + XorBits(a % m, b % m, h)

RECURSIVE AndBits(_, _, _)
AndBits(a, b, n) ==
  IF n = 1 THEN a * b
  ELSE LET h == n \div 2
           m == Pow2(h)
       IN  AndBits(a \div m, b \div m, h) * m + AndBits(a % m, b % m, h)

Xor(x, y) == << XorBits(x[1], y[1], 16), XorBits(x[2], y[2], 16) >>
And(x, y) == << AndBits(x[1], y[1], 16), AndBits(x[2], y[2], 16) >>
Not(x) == << 65535 - x[1], 65535 - x[2] >>
Add(x, y) ==
  LET lo == x[2] + y[2]
      hi == x[1] + y[1] + (lo \div 65536)
  IN  << hi % 65536, lo % 65536 >>

RECURSIVE Rotr(_, _)
Rotr(x, n) ==
  IF n = 0 THEN x
  ELSE IF n >= 16 THEN Rotr(<< x[2], x[1] >>, n - 16)
  ELSE << (x[1] \div Pow2(n)) + (x[2] % Pow2(n)) * Pow2(16 - n),
          (x[2] \div Pow2(n)) + (x[1] % Pow2(n)) * Pow2(16 - n) >>

Shr(x, n) ==
  IF n >= 16 THEN << 0, x[1] \div Pow2(n - 16) >>
  ELSE << x[1] \div Pow2(n),
          (x[2] \div Pow2(n)) + (x[1] % Pow2(n)) * Pow2(16 - n) >>

K ==
  << <<17034, 12184>>, <<28983, 17553>>, <<46528, 64463>>, <<59829, 56229>>,
     <<14678, 49755>>, <<23025, 4593>>, <<37439, 33444>>, <<43804, 24277>>,
     <<55303, 43672>>, <<4739, 23297>>, <<9265, 34238>>, <<21772, 32195>>,
     <<29374, 23924>>, <<32990, 45566>>, <<39900, 1703>>, <<49563, 61812>>,
     <<58523, 27073>>, <<61374, 18310>>, <<4033, 40390>>, <<9228, 41420>>,
     <<11753, 11375>>, <<19060, 33962>>, <<23728, 43484>>, <<30457, 35034>>,
     <<38974, 20818>>, <<43057, 50797>>, <<45059, 10184>>, <<48985, 32711>>,
     <<50912, 3059>>, <<54695, 37191>>, <<1738, 25425>>, <<5161, 10599>>,
     <<10167, 2693>>, <<11803, 8504>>, <<19756, 28156>>, <<21304, 3347>>,
     <<25866, 29524>>, <<30314, 2747>>, <<33218, 51502>>, <<37490, 11397>>,
     <<41663, 59553>>, <<43034, 26187>>, <<49739, 35696>>, <<51052, 20899>>,
     <<53650, 59417>>, <<54937, 1572>>, <<62478, 13701>>, <<4202, 41072>>,
     <<6564, 49430>>, <<7735, 27656>>, <<10056, 30540>>, <<13488, 48309>>,
     <<14620, 3251>>, <<20184, 43594>>, <<23452, 51791>>, <<26670, 28659>>,
     <<29839, 33518>>, <<30885, 25455>>, <<33992, 30740>>, <<36039, 520>>,
     <<37054, 65530>>, <<42064, 27883>>, <<48889, 41975>>, <<50801, 30962>> >>

H0 ==
  << <<27145, 58983>>, <<47975, 44677>>, <<15470, 62322>>, <<42319, 62778>>,
     <<20750, 21119>>, <<39685, 26764>>, <<8067, 55723>>, <<23520, 52505>> >>

BigSigma0(x) == Xor(Xor(Rotr(x, 2), Rotr(x, 13)), Rotr(x, 22))
BigSigma1(x) == Xor(Xor(Rotr(x, 6), Rotr(x, 11)), Rotr(x, 25))
SmallSigma0(x) == Xor(Xor(Rotr(x, 7), Rotr(x, 18)), Shr(x, 3))
SmallSigma1(x) == Xor(Xor(Rotr(x, 17), Rotr(x, 19)), Shr(x, 10))
Ch(x, y, z) == Xor(And(x, y), And(Not(x), z))
Maj(x, y, z) == Xor(Xor(And(x, y), And(x, z)), And(y, z))

Zeros(n) == [i \in 1..n |-> 0]

\* The message followed by 0x80, zero bytes up to 56 mod 64, and the bit
\* length as a 64-bit big-endian number.
Pad(msg) ==
  LET L == Len(msg)
      bits == 8 * L
  IN  msg \o << 128 >> \o Zeros((55 - L) % 64) \o Zeros(4)
          \o << (bits \div 16777216) % 256, (bits \div 65536) % 256,
                (bits \div 256) % 256, bits % 256 >>

\* The sixteen big-endian words of block number blk (from 0) of bytes m.
BlockWords(m, blk) ==
  [i \in 1..16 |->
     LET o == 64 * blk + 4 * (i - 1)
     IN  << m[o + 1] * 256 + m[o + 2], m[o + 3] * 256 + m[o + 4] >>]

\* The message schedule W extended by its words number lo to hi.
RECURSIVE Schedule(_, _, _)
Schedule(W, lo, hi) ==
  IF lo = hi
  THEN Append(W, Add(Add(SmallSigma1(W[lo - 2]), W[lo - 7]),
                     Add(SmallSigma0(W[lo - 15]), W[lo - 16])))
  ELSE LET mid == (lo + hi) \div 2
           V == Schedule(W, lo, mid)
       \* Len(V) makes TLC compute the first half before the second starts.
       IN  IF Len(V) = mid THEN Schedule(V, mid + 1, hi) ELSE V

Round(s, w, k) ==
  LET T1 == Add(Add(Add(s[8], BigSigma1(s[5])), Add(Ch(s[5], s[6], s[7]), k)), w)
      T2 == Add(BigSigma0(s[1]), Maj(s[1], s[2], s[3]))
  IN  << Add(T1, T2), s[1], s[2], s[3], Add(s[4], T1), s[5], s[6], s[7] >>

\* The working variables s after rounds number lo to hi.
RECURSIVE Rounds(_, _, _, _)
Rounds(s, W, lo, hi) ==
  IF lo = hi THEN Round(s, W[lo], K[lo])
  ELSE LET mid == (lo + hi) \div 2
           r == Rounds(s, W, lo, mid)
       \* Len(r) makes TLC compute the first half before the second starts.
       IN  IF Len(r) = 8 THEN Rounds(r, W, mid + 1, hi) ELSE r

Compress(h, words) ==
  LET W == Schedule(words, 17, 64)
      s == Rounds(h, W, 1, 64)
  IN  [i \in 1..8 |-> Add(h[i], s[i])]

RECURSIVE Blocks(_, _, _)
Blocks(h, m, blk) ==
  IF 64 * blk >= Len(m) THEN h
  ELSE Blocks(Compress(h, BlockWords(m, blk)), m, blk + 1)

\* The 32 digest bytes of SHA-256 over the byte sequence data.
Sha256(data) ==
  LET h == Blocks(H0, Pad(data), 0)
  IN  [i \in 1..32 |->
         LET w == h[((i - 1) \div 4) + 1]
             k == (i - 1) % 4
         IN  IF k = 0 THEN w[1] \div 256
             ELSE IF k = 1 THEN w[1] % 256
             ELSE IF k = 2 THEN w[2] \div 256
             ELSE w[2] % 256]

\* Hash::SHA2256: multihash code 0x12, digest size 0x20.
SHA2256 == [code |-> 18, size |-> 32]

\* multihash::encode: the code byte, the size byte, then the digest.
encode(hash, data) == << hash.code, hash.size >> \o Sha256(data)

(***************************************************************************)
(* Inputs of the RPC calls.                                                *)
(***************************************************************************)
Calls == 1..NumCalls
Bases == {"a", "b"}
Names == {"n", "m"}
Jsons == {"{}"}
FileNames == {"out.log"}
Bytes == {104}

RECURSIVE ByteSeqs(_)
ByteSeqs(n) ==
  IF n = 0 THEN {<< >>}
  ELSE LET S == ByteSeqs(n - 1)
       IN  S \cup {Append(s, b) : s \in S, b \in Bytes}

Payloads == ByteSeqs(MaxDataLen)
\* ProfileId(i64) and TaskId(i64): the values the calls are made with.
ProfileIds == 1..MaxProfileSeq
TaskIds == 1..MaxTaskSeq

\* Option<T>: the empty set is None, {v} is Some(v).
Option(T) == {{}} \cup {{v} : v \in T}
unwrap(o) == CHOOSE v \in o : TRUE

\* The multihash of every payload, computed once.
Multihashes == [d \in Payloads |-> encode(SHA2256, d)]

\* Every order in which the rows of a SELECT without ORDER BY may come back.
Orderings(S) ==
  {s \in [1..Cardinality(S) -> S] : \A i, j \in DOMAIN s : i # j => s[i] # s[j]}

VARIABLES
  profiles,         \* rows of table profiles
  tasks,            \* rows of table tasks
  profiles_id_seq,  \* last value of the sequence behind profiles.id
  tasks_id_seq,     \* last value of the sequence behind tasks.id
  db_pool,          \* idle connections of RpcImpl.db_pool
  pc,               \* where each call is
  method,           \* the RPC method of each call
  params,           \* its arguments
  profile,          \* create_task's local `profile`
  conns,            \* connections each call has checked out
  ret,              \* what each finished call ended with
  profile_log,      \* history: the create_profile calls that returned an id
  task_log          \* history: the create_task calls that returned an id

vars ==
  << profiles, tasks, profiles_id_seq, tasks_id_seq, db_pool, pc, method,
     params, profile, conns, ret, profile_log, task_log >>

tables == << profiles, tasks, profiles_id_seq, tasks_id_seq >>
logs == << profile_log, task_log >>

Init ==
  /\ profiles = {}
  /\ tasks = {}
  /\ profiles_id_seq = 0
  /\ tasks_id_seq = 0
  /\ db_pool = PoolSize
  /\ pc = [c \in Calls |-> "idle"]
  /\ method = [c \in Calls |-> "none"]
  /\ params = [c \in Calls |-> << >>]
  /\ profile = [c \in Calls |-> {}]
  /\ conns = [c \in Calls |-> 0]
  /\ ret = [c \in Calls |-> [kind |-> "None"]]
  /\ profile_log = << >>
  /\ task_log = << >>

(***************************************************************************)
(* The statements.                                                         *)
(***************************************************************************)
\* id BIGSERIAL: the column's default takes the next value of its sequence,
\* whether or not the row is then accepted.
nextval(seq) == seq + 1

\* profiles: id PRIMARY KEY, name UNIQUE.
profiles_accepts(table, row) ==
  /\ \A r \in table : r.id # row.id
  /\ \A r \in table : r.name # row.name

\* tasks: id PRIMARY KEY; profile_id is a plain NOT NULL column.
tasks_accepts(table, row) == \A r \in table : r.id # row.id

\* As select_profiles with the WHERE clause lost.
select_profiles_unfiltered(table, by_base) == table

\* SELECT (id) FROM profiles [WHERE base = $1]
select_profiles(table, by_base) ==
  IF by_base # {} THEN {r \in table : r.base = unwrap(by_base)} ELSE table

\* SELECT (id) FROM tasks [WHERE profile_id = $1]
select_tasks(table, by_profile) ==
  IF by_profile # {} THEN {r \in table : r.profile_id = unwrap(by_profile)}
  ELSE table

\* As profile_row with a default record standing in for a missing row.
profile_row_or_default(table, id) ==
  LET rows == {r \in table : r.id = id}
  IN  IF rows = {} THEN {[id |-> id, base |-> "", name |-> "", json |-> ""]}
      ELSE {CHOOSE r \in rows : TRUE}

\* SELECT * FROM profiles WHERE id = $1, then rows.iter().next()
profile_row(table, id) ==
  LET rows == {r \in table : r.id = id}
  IN  IF rows = {} THEN {} ELSE {CHOOSE r \in rows : TRUE}

\* As task_row with the WHERE clause lost: the first row of the table.
task_row_any(table, id) ==
  IF table = {} THEN {}
  ELSE {CHOOSE r \in table : \A q \in table : r.id <= q.id}

\* SELECT * FROM tasks WHERE id = $1, then rows.iter().next()
task_row(table, id) ==
  LET rows == {r \in table : r.id = id}
  IN  IF rows = {} THEN {} ELSE {CHOOSE r \in rows : TRUE}

\* As new_task with &data bound to $4 as it is to $3.
new_task_unhashed(id, profile_id, file_name, data) ==
  [id |-> id, profile_id |-> profile_id, file_name |-> file_name,
   data |-> data, multihash |-> data]

\* The row create_task inserts: $4 is encode(Hash::SHA2256, &data).
new_task(id, profile_id, file_name, data) ==
  [id |-> id, profile_id |-> profile_id, file_name |-> file_name,
   data |-> data, multihash |-> Multihashes[data]]

\* As inserted_id with the statement's count of rows in place of the id.
inserted_id_rows_affected(row) == 1

\* RETURNING id, read with .iter().next().unwrap().get(0).
inserted_id(row) == row.id

\* The row create_profile inserts.
new_profile(id, base_name, name, json) ==
  [id |-> id, base |-> base_name, name |-> name, json |-> json]

(***************************************************************************)
(* The steps of a handler, in the order the code takes them: "get" is      *)
(* self.db_pool.get(), "query" the handler's statement; create_task first  *)
(* runs fetch_profile ("resolve_get", "resolve_query").                    *)
(***************************************************************************)
\* As Steps with create_task's own connection requested before fetch_profile.
Steps_conn_first(m) ==
  IF m = "create_task" THEN << "get", "resolve_get", "resolve_query", "query" >>
  ELSE << "get", "query" >>

Steps(m) ==
  IF m = "create_task" THEN << "resolve_get", "resolve_query", "get", "query" >>
  ELSE << "get", "query" >>

StepAfter(m, s) ==
  LET st == Steps(m)
      i == CHOOSE k \in 1..Len(st) : st[k] = s
  IN  IF i = Len(st) THEN "done" ELSE st[i + 1]

InFlight(m) ==
  Cardinality({c \in Calls : method[c] = m /\ pc[c] \notin {"idle", "done"}})

\* .unwrap() on an Err or a None: the handler unwinds, its connections go
\* back to the pool, and the call ends without a response.
Panic(c, why) ==
  /\ pc' = [pc EXCEPT ![c] = "done"]
  /\ ret' = [ret EXCEPT ![c] = [kind |-> "Panic", why |-> why]]
  /\ db_pool' = db_pool + conns[c]
  /\ conns' = [conns EXCEPT ![c] = 0]

\* Ok(value): the handler returns and `conn` is dropped.
Ok(c, value) ==
  /\ pc' = [pc EXCEPT ![c] = "done"]
  /\ ret' = [ret EXCEPT ![c] = [kind |-> "Ok", value |-> value]]
  /\ db_pool' = db_pool + conns[c]
  /\ conns' = [conns EXCEPT ![c] = 0]

\* No response is waiting to go out.  A finished call's response is delivered
\* before the server takes another step: finish touches nothing the calls
\* share, so this leaves out no state of the tables, the pool or the logs.
Quiet == \A d \in Calls : pc[d] # "done"

\* The IoHandler hands a request to the method's handler.
Dispatch(c, m, p) ==
  /\ Quiet
  /\ pc[c] = "idle"
  /\ pc' = [pc EXCEPT ![c] = Steps(m)[1]]
  /\ method' = [method EXCEPT ![c] = m]
  /\ params' = [params EXCEPT ![c] = p]
  /\ UNCHANGED << tables, logs, db_pool, profile, conns, ret >>

call_create_profile(c) ==
  /\ profiles_id_seq + InFlight("create_profile") < MaxProfileSeq
  /\ \E b \in Bases, n \in Names, j \in Jsons :
       Dispatch(c, "create_profile", [base_name |-> b, name |-> n, json |-> j])

call_list_profiles(c) ==
  \E b \in Option(Bases) : Dispatch(c, "list_profiles", [by_base |-> b])

call_fetch_profile(c) ==
  \E i \in ProfileIds : Dispatch(c, "fetch_profile", [id |-> i])

call_create_task(c) ==
  /\ tasks_id_seq + InFlight("create_task") < MaxTaskSeq
  /\ \E p \in ProfileIds, f \in FileNames, d \in Payloads :
       Dispatch(c, "create_task", [profile |-> p, file_name |-> f, data |-> d])

call_list_tasks(c) ==
  \E p \in Option(ProfileIds) : Dispatch(c, "list_tasks", [by_profile |-> p])

call_fetch_task(c) ==
  \E i \in TaskIds : Dispatch(c, "fetch_task", [id |-> i])

\* self.db_pool.get().unwrap(): takes an idle connection; with none idle the
\* call waits, and when the pool's timeout passes get() is an Err.
get(c) ==
  /\ Quiet
  /\ pc[c] \in {"get", "resolve_get"}
  /\ IF db_pool > 0
     THEN /\ db_pool' = db_pool - 1
          /\ conns' = [conns EXCEPT ![c] = @ + 1]
          /\ pc' = [pc EXCEPT ![c] = StepAfter(method[c], pc[c])]
          /\ UNCHANGED ret
     ELSE Panic(c, "PoolTimeout")
  /\ UNCHANGED << tables, logs, method, params, profile >>

\* conn.query(..).unwrap() when the backing store answers with an error.
query_error(c) ==
  /\ Quiet
  /\ pc[c] \in {"query", "resolve_query"}
  /\ Panic(c, "StoreError")
  /\ UNCHANGED << tables, logs, method, params, profile >>

create_profile(c) ==
  /\ Quiet
  /\ pc[c] = "query" /\ method[c] = "create_profile"
  /\ LET id == nextval(profiles_id_seq)
         row == new_profile(id, params[c].base_name, params[c].name, params[c].json)
     IN  /\ profiles_id_seq' = id
         /\ IF profiles_accepts(profiles, row)
            THEN /\ profiles' = profiles \cup {row}
                 /\ profile_log' = Append(profile_log,
                       [id |-> inserted_id(row), base_name |-> params[c].base_name,
                        name |-> params[c].name, json |-> params[c].json])
                 /\ Ok(c, inserted_id(row))
            ELSE /\ UNCHANGED << profiles, profile_log >>
                 /\ Panic(c, "ConstraintViolation")
  /\ UNCHANGED << tasks, tasks_id_seq, task_log, method, params, profile >>

list_profiles(c) ==
  /\ Quiet
  /\ pc[c] = "query" /\ method[c] = "list_profiles"
  /\ \E rows \in Orderings(select_profiles(profiles, params[c].by_base)) :
       Ok(c, [i \in DOMAIN rows |-> rows[i].id])
  /\ UNCHANGED << tables, logs, method, params, profile >>

\* fetch_profile, called over RPC or by create_task.
fetch_profile(c) ==
  /\ Quiet
  /\ pc[c] = IF method[c] = "create_task" THEN "resolve_query" ELSE "query"
  /\ method[c] \in {"fetch_profile", "create_task"}
  /\ LET id == IF method[c] = "create_task" THEN params[c].profile ELSE params[c].id
         row == profile_row(profiles, id)
     IN  IF row = {}
         THEN Panic(c, "NoRows") /\ UNCHANGED profile
         ELSE IF method[c] = "create_task"
         THEN /\ profile' = [profile EXCEPT ![c] = row]
              /\ pc' = [pc EXCEPT ![c] = StepAfter(method[c], pc[c])]
              /\ db_pool' = db_pool + 1
              /\ conns' = [conns EXCEPT ![c] = @ - 1]
              /\ UNCHANGED ret
         ELSE Ok(c, unwrap(row)) /\ UNCHANGED profile
  /\ UNCHANGED << tables, logs, method, params >>

create_task(c) ==
  /\ Quiet
  /\ pc[c] = "query" /\ method[c] = "create_task"
  /\ LET id == nextval(tasks_id_seq)
         row == new_task(id, unwrap(profile[c]).id, params[c].file_name, params[c].data)
     IN  /\ tasks_id_seq' = id
         /\ IF tasks_accepts(tasks, row)
            THEN /\ tasks' = tasks \cup {row}
                 /\ task_log' = Append(task_log,
                       [id |-> inserted_id(row), profile |-> params[c].profile,
                        file_name |-> params[c].file_name, data |-> params[c].data])
                 /\ Ok(c, inserted_id(row))
            ELSE /\ UNCHANGED << tasks, task_log >>
                 /\ Panic(c, "ConstraintViolation")
  /\ UNCHANGED << profiles, profiles_id_seq, profile_log, method, params, profile >>

list_tasks(c) ==
  /\ Quiet
  /\ pc[c] = "query" /\ method[c] = "list_tasks"
  /\ \E rows \in Orderings(select_tasks(tasks, params[c].by_profile)) :
       Ok(c, [i \in DOMAIN rows |-> rows[i].id])
  /\ UNCHANGED << tables, logs, method, params, profile >>

fetch_task(c) ==
  /\ Quiet
  /\ pc[c] = "query" /\ method[c] = "fetch_task"
  /\ LET row == task_row(tasks, params[c].id)
     IN  IF row = {} THEN Panic(c, "NoRows") ELSE Ok(c, unwrap(row))
  /\ UNCHANGED << tables, logs, method, params, profile >>

\* The call is over: its response, if any, has gone to the caller.
finish(c) ==
  /\ pc[c] = "done"
  /\ pc' = [pc EXCEPT ![c] = "idle"]
  /\ method' = [method EXCEPT ![c] = "none"]
  /\ params' = [params EXCEPT ![c] = << >>]
  /\ profile' = [profile EXCEPT ![c] = {}]
  /\ ret' = [ret EXCEPT ![c] = [kind |-> "None"]]
  /\ UNCHANGED << tables, logs, db_pool, conns >>

Next ==
  \E c \in Calls :
    \/ call_create_profile(c)
    \/ call_list_profiles(c)
    \/ call_fetch_profile(c)
    \/ call_create_task(c)
    \/ call_list_tasks(c)
    \/ call_fetch_task(c)
    \/ get(c)
    \/ query_error(c)
    \/ create_profile(c)
    \/ list_profiles(c)
    \/ fetch_profile(c)
    \/ create_task(c)
    \/ list_tasks(c)
    \/ fetch_task(c)
    \/ finish(c)

Spec == Init /\ [][Next]_vars

(***************************************************************************)
(* The claims.                                                             *)
(***************************************************************************)
Done(c, m) == pc[c] = "done" /\ method[c] = m

\* The call got its connection and the backing store answered its statement.
Ran(c) ==
  ~(ret[c].kind = "Panic" /\ ret[c].why \in {"PoolTimeout", "StoreError"})

Fault(c, codes) == ret[c].kind = "Fault" /\ ret[c].code \in codes

Returned(log) == {log[i].id : i \in DOMAIN log}

Increasing(log) == \A i, j \in DOMAIN log : i < j => log[i].id < log[j].id

\* C1: a fetch_profile or fetch_task of an identifier no create has returned,
\* whose statement ran, ends with a NotFound fault (never a record, never a
\* panic).
C1_FetchUnknownIsNotFound ==
  \A c \in Calls :
    /\ (Done(c, "fetch_profile") /\ params[c].id \notin Returned(profile_log) /\ Ran(c))
         => Fault(c, {"NotFound"})
    /\ (Done(c, "fetch_task") /\ params[c].id \notin Returned(task_log) /\ Ran(c))
         => Fault(c, {"NotFound"})

\* C2: no two stored profiles share a name, and a create_profile whose
\* statement ran either returned a new id or ended with a Conflict fault.
C2_DuplicateNameIsConflict ==
  /\ \A p, q \in profiles : p.name = q.name => p = q
  /\ \A c \in Calls :
       (Done(c, "create_profile") /\ Ran(c))
         => \/ ret[c].kind = "Ok"
            \/ Fault(c, {"Conflict"})

\* C3: every stored task's profile_id is the id of a stored profile, and a
\* create_task that is past its profile check holds a stored profile.
C3_TaskProfileExists ==
  /\ \A t \in tasks : \E p \in profiles : p.id = t.profile_id
  /\ \A c \in Calls :
       (method[c] = "create_task" /\ pc[c] = "query")
         => (profile[c] # {} /\ profile[c] \subseteq profiles)

\* A create_task has inserted its row while a create_profile is in flight.
C3_Witness ==
  \E c, d \in Calls :
    /\ Done(c, "create_task") /\ ret[c].kind = "Ok"
    /\ method[d] = "create_profile" /\ pc[d] \in {"get", "query"}
    /\ tasks # {}

\* C4: a create_task whose profile id identifies no stored profile, and whose
\* statement ran, ends with a NotFound or Conflict fault.
C4_UnknownProfileIsFault ==
  \A c \in Calls :
    (/\ Done(c, "create_task")
     /\ \A p \in profiles : p.id # params[c].profile
     /\ Ran(c))
      => Fault(c, {"NotFound", "Conflict"})

\* C5: every stored task's multihash is the SHA-256 multihash of its stored
\* data: 0x12, 0x20, then the 32 digest bytes (for the one-byte payload "h"
\* the digest is aaa94026...4db123).
C5_DigestOfData ==
  \A t \in tasks :
    /\ t.multihash = Multihashes[t.data]
    /\ Len(t.multihash) = 34 /\ t.multihash[1] = 18 /\ t.multihash[2] = 32
    /\ t.data = << 104 >> =>
         t.multihash =
           << 18, 32, 170, 169, 64, 38, 100, 241, 164, 31, 64, 235, 188, 82,
              201, 153, 62, 182, 106, 235, 54, 102, 2, 149, 143, 223, 170, 40,
              59, 113, 230, 77, 177, 35 >>

\* Two tasks with different payloads are stored.
C5_Witness ==
  \E t, u \in tasks : t.data = << 104 >> /\ u.data = << >>

\* C6: a fetch_task of an id that create_task(p, f, d) returned, whose
\* statement ran, returns the record with that id, profile_id p, file_name f
\* and data d.
C6_RoundTrip ==
  \A c \in Calls :
    \A i \in DOMAIN task_log :
      (Done(c, "fetch_task") /\ params[c].id = task_log[i].id /\ Ran(c))
        => /\ ret[c].kind = "Ok"
           /\ ret[c].value.id = task_log[i].id
           /\ ret[c].value.profile_id = task_log[i].profile
           /\ ret[c].value.file_name = task_log[i].file_name
           /\ ret[c].value.data = task_log[i].data

\* The second of two created tasks is fetched.
C6_Witness ==
  \E c \in Calls :
    /\ Done(c, "fetch_task") /\ ret[c].kind = "Ok"
    /\ Len(task_log) = 2 /\ params[c].id = task_log[2].id
    /\ task_log[1].data # task_log[2].data

\* C7: within profiles and within tasks the ids the creates returned are
\* strictly increasing in the order they were handed out, so none is returned
\* twice, also with failed creates in between.
C7_IdsIncrease ==
  /\ Increasing(profile_log)
  /\ Increasing(task_log)
  /\ \A i \in DOMAIN profile_log : profile_log[i].id <= profiles_id_seq
  /\ \A i \in DOMAIN task_log : task_log[i].id <= tasks_id_seq

\* Two profiles and two tasks were created, and a create_profile failed
\* between the two that succeeded.
C7_Witness ==
  /\ Len(profile_log) = 2 /\ profile_log[1].id = 1 /\ profile_log[2].id = 3
  /\ Len(task_log) = 2

\* C8: a list_profiles whose statement ran returns, each once, the ids of the
\* stored profiles whose base is by_base (of all of them without by_base),
\* the empty sequence when there is none.
C8_ListProfilesExact ==
  \A c \in Calls :
    (Done(c, "list_profiles") /\ Ran(c))
      => /\ ret[c].kind = "Ok"
         /\ LET out == ret[c].value
                want == {p.id : p \in {q \in profiles :
                            params[c].by_base \in {{}, {q.base}}}}
            IN  /\ {out[i] : i \in DOMAIN out} = want
                /\ Len(out) = Cardinality(want)

\* Profiles of both bases are stored and the by_base = "a" list has one id.
C8_Witness ==
  \E c \in Calls :
    /\ Done(c, "list_profiles") /\ ret[c].kind = "Ok"
    /\ params[c].by_base = {"a"}
    /\ Len(ret[c].value) = 1
    /\ \E p \in profiles : p.base = "b"

\* C9: a call holds at most one connection of the pool, and holds none while
\* it requests one.
C9_OneConnection ==
  \A c \in Calls :
    /\ conns[c] <= 1
    /\ pc[c] \in {"get", "resolve_get"} => conns[c] = 0

\* create_task has resolved its profile and waits for the pool's only
\* connection, which another call holds.
C9_Witness ==
  \E c, d \in Calls :
    /\ method[c] = "create_task" /\ pc[c] = "get" /\ profile[c] # {}
    /\ conns[c] = 0 /\ db_pool = 0 /\ conns[d] = 1

\* C10: every call that ends ends with a result or a typed fault, never with
\* the handler unwinding.
C10_FailuresAreFaults ==
  \A c \in Calls :
    pc[c] = "done" => (ret[c].kind = "Ok" \/ Fault(c, {"NotFound", "Conflict", "ResourceExhausted", "StoreUnavailable"}))

=============================================================================
